---- MODULE Spec2Model ----
(***************************************************************************)
(* Verification model of libpg_query's node utilities:                     *)
(*   exprLocation / leftmostLoc      (src_backend_nodes_nodeFuncs.c)       *)
(*   raw_expression_tree_walker_impl (src_backend_nodes_nodeFuncs.c)       *)
(* and of the entry points pg_query_internal.h declares:                  *)
(*   pg_query_raw_parse, pg_query_enter/exit_memory_context               *)
(* A parse tree is a heap of nodes; node i of the heap is h[i], the root   *)
(* is node 1 and the NULL pointer is 0.  A node carries its tag, its       *)
(* location field (-1 when the struct has none) and its child pointers,    *)
(* one per field of Schema(tag), or one per member for a List.             *)
(***************************************************************************)
EXTENDS Integers, Sequences, FiniteSets, TLC

VARIABLES heap, pc, arg, stack, trace, ret, notices, stack_base,
          loc, loc1, loc2,
          CurrentMemoryContext, contexts, handles, entered,
          input, fault, emitted, stderr_buffer, result, calls

\* the state of the entry points of pg_query_internal.h
apiVars == <<CurrentMemoryContext, contexts, handles, entered,
             input, fault, emitted, stderr_buffer, result, calls>>

vars == <<heap, pc, arg, stack, trace, ret, notices, stack_base,
          loc, loc1, loc2, apiVars>>

NULL == 0

\* ---------------------------------------------------------------- bounds
\* most nodes in a parse tree
MaxNodes == 3
\* longest List
MaxListLen == 2
\* largest known parse location stored in a tree
MaxLoc == 1
\* leftmostLoc is applied to every pair of integers in -MaxInt..MaxInt
MaxInt == 4
\* frames of stack the embedded engine allows (max_stack_depth)
StackLimit == 2
\* most nodes in a parse tree whose root is a CaseExpr
MaxCaseNodes == 5
\* most calls of pg_query_enter_memory_context in a run
MaxEnters == 3
\* most calls of pg_query_raw_parse in a run
MaxCalls == 2
\* most writes to the diagnostic channel during one call
MaxWrites == 2

Locs == (-1)..MaxLoc

\* ------------------------------------------------------------ node kinds
\* case labels of exprLocation whose arm is "loc = ((const T *) expr)->location"
OwnLocationTags ==
    {"RangeVar", "TableFunc", "Var", "Const", "Param", "Aggref", "GroupingFunc",
     "WindowFunc", "CaseExpr", "CaseWhen", "ArrayExpr", "RowExpr",
     "CoalesceExpr", "MinMaxExpr", "SQLValueFunction", "JsonFormat",
     "JsonConstructorExpr", "JsonIsPredicate", "CoerceToDomainValue",
     "SetToDefault", "ColumnRef", "ParamRef", "A_Const", "A_ArrayExpr",
     "ResTarget", "WindowDef", "RangeTableSample", "TypeName", "ColumnDef",
     "Constraint", "XmlSerialize", "GroupingSet", "WithClause", "InferClause",
     "OnConflictClause", "CTESearchClause", "CTECycleClause", "CommonTableExpr",
     "JsonObjectConstructor", "JsonArrayConstructor",
     "JsonArrayQueryConstructor", "JsonAggConstructor", "PartitionElem",
     "PartitionSpec", "PartitionBoundSpec", "PartitionRangeDatum"}

\* case labels whose arm is "loc = leftmostLoc(x->location, exprLocation(x->f))"
CombineTags ==
    {"FuncExpr", "NamedArgExpr", "OpExpr", "DistinctExpr", "NullIfExpr",
     "ScalarArrayOpExpr", "BoolExpr", "RelabelType", "CoerceViaIO",
     "ArrayCoerceExpr", "ConvertRowtypeExpr", "XmlExpr", "NullTest",
     "BooleanTest", "CoerceToDomain", "A_Expr", "FuncCall"}

\* case labels whose arm is "loc = exprLocation(x->f)"
ForwardTags ==
    {"SubscriptingRef", "FieldSelect", "FieldStore", "CollateExpr",
     "RowCompareExpr", "JsonValueExpr", "TargetEntry", "IntoClause",
     "MultiAssignRef", "CollateClause", "SortBy", "FunctionParameter",
     "JsonKeyValue", "JsonObjectAgg", "JsonArrayAgg", "PlaceHolderVar",
     "InferenceElem"}

\* every case label of exprLocation
LocationTags ==
    OwnLocationTags \cup CombineTags \cup ForwardTags
        \cup {"SubLink", "List", "TypeCast"}

\* case labels of raw_expression_tree_walker_impl that break without a WALK
WalkLeafTags ==
    {"JsonFormat", "SetToDefault", "CurrentOfExpr", "SQLValueFunction",
     "Integer", "Float", "Boolean", "String", "BitString", "ParamRef",
     "A_Const", "A_Star", "Alias", "ColumnRef"}

\* case labels of raw_expression_tree_walker_impl that WALK struct fields
WalkStructTags ==
    {"RangeVar", "GroupingFunc", "SubLink", "RowExpr", "CoalesceExpr",
     "MinMaxExpr", "XmlExpr", "JsonReturning", "JsonValueExpr",
     "JsonConstructorExpr", "JsonIsPredicate", "NullTest", "BooleanTest",
     "JoinExpr", "IntoClause", "InsertStmt", "DeleteStmt", "UpdateStmt",
     "MergeStmt", "MergeWhenClause", "SelectStmt", "PLAssignStmt", "A_Expr",
     "BoolExpr", "FuncCall", "NamedArgExpr", "A_Indices", "A_Indirection",
     "A_ArrayExpr", "ResTarget", "MultiAssignRef", "TypeCast",
     "CollateClause", "SortBy", "WindowDef", "RangeSubselect",
     "RangeFunction", "RangeTableSample", "RangeTableFunc",
     "RangeTableFuncCol", "TypeName", "ColumnDef", "IndexElem", "GroupingSet",
     "LockingClause", "XmlSerialize", "WithClause", "InferClause",
     "OnConflictClause", "CommonTableExpr", "JsonOutput", "JsonKeyValue",
     "JsonObjectConstructor", "JsonArrayConstructor", "JsonAggConstructor",
     "JsonObjectAgg", "JsonArrayAgg", "JsonArrayQueryConstructor"}

\* every case label of raw_expression_tree_walker_impl
WalkTags == WalkLeafTags \cup WalkStructTags \cup {"CaseExpr", "List"}

\* a DDL statement: no case label in either switch
DDLTags == {"CreateStmt"}

AllTags == LocationTags \cup WalkTags \cup DDLTags

\* the structs whose ->location the code reads
HasLocation(tag) == tag \in OwnLocationTags \cup CombineTags \cup {"SubLink", "TypeCast"}

\* The pointer fields of each struct that the two functions read or name in
\* their comments, each with the declared type of the pointer: "Node" for a
\* Node * or Expr *, "List" for a List *, else the struct it points to.
Schema(tag) ==
    CASE tag = "RangeVar" -> << <<"alias", "Alias">> >>
      [] tag = "Alias" -> << <<"colnames", "List">> >>
      [] tag = "GroupingFunc" -> << <<"args", "List">> >>
      [] tag = "SubscriptingRef" -> << <<"refexpr", "Node">> >>
      [] tag \in {"FuncExpr", "OpExpr", "DistinctExpr", "NullIfExpr",
                  "ScalarArrayOpExpr", "BoolExpr", "CoalesceExpr", "MinMaxExpr"}
            -> << <<"args", "List">> >>
      [] tag \in {"NamedArgExpr", "FieldSelect", "FieldStore", "RelabelType",
                  "CoerceViaIO", "ArrayCoerceExpr", "ConvertRowtypeExpr",
                  "CollateExpr", "NullTest", "BooleanTest", "CoerceToDomain",
                  "CollateClause"}
            -> << <<"arg", "Node">> >>
      [] tag = "SubLink"
            -> << <<"testexpr", "Node">>, <<"operName", "List">>,
                  <<"subselect", "Node">> >>
      [] tag = "CaseExpr"
            -> << <<"arg", "Node">>, <<"args", "List">>, <<"defresult", "Node">> >>
      [] tag = "CaseWhen" -> << <<"expr", "Node">>, <<"result", "Node">> >>
      [] tag = "RowExpr" -> << <<"args", "List">>, <<"colnames", "List">> >>
      [] tag = "RowCompareExpr" -> << <<"largs", "List">> >>
      [] tag = "XmlExpr"
            -> << <<"named_args", "List">>, <<"arg_names", "List">>,
                  <<"args", "List">> >>
      [] tag = "JsonReturning" -> << <<"format", "JsonFormat">> >>
      [] tag = "JsonValueExpr"
            -> << <<"raw_expr", "Node">>, <<"formatted_expr", "Node">>,
                  <<"format", "JsonFormat">> >>
      [] tag = "JsonConstructorExpr"
            -> << <<"args", "List">>, <<"func", "Node">>, <<"coercion", "Node">>,
                  <<"returning", "JsonReturning">> >>
      [] tag \in {"JsonIsPredicate", "TargetEntry", "InferenceElem"}
            -> << <<"expr", "Node">> >>
      [] tag = "JoinExpr"
            -> << <<"larg", "Node">>, <<"rarg", "Node">>, <<"usingClause", "List">>,
                  <<"quals", "Node">>, <<"alias", "Alias">> >>
      [] tag = "IntoClause"
            -> << <<"rel", "RangeVar">>, <<"colNames", "List">>,
                  <<"options", "List">>, <<"viewQuery", "Node">> >>
      [] tag = "InsertStmt"
            -> << <<"relation", "RangeVar">>, <<"cols", "List">>,
                  <<"selectStmt", "Node">>,
                  <<"onConflictClause", "OnConflictClause">>,
                  <<"returningList", "List">>, <<"withClause", "WithClause">> >>
      [] tag = "DeleteStmt"
            -> << <<"relation", "RangeVar">>, <<"usingClause", "List">>,
                  <<"whereClause", "Node">>, <<"returningList", "List">>,
                  <<"withClause", "WithClause">> >>
      [] tag = "UpdateStmt"
            -> << <<"relation", "RangeVar">>, <<"targetList", "List">>,
                  <<"whereClause", "Node">>, <<"fromClause", "List">>,
                  <<"returningList", "List">>, <<"withClause", "WithClause">> >>
      [] tag = "MergeStmt"
            -> << <<"relation", "RangeVar">>, <<"sourceRelation", "Node">>,
                  <<"joinCondition", "Node">>, <<"mergeWhenClauses", "List">>,
                  <<"withClause", "WithClause">> >>
      [] tag = "MergeWhenClause"
            -> << <<"condition", "Node">>, <<"targetList", "List">>,
                  <<"values", "List">> >>
      [] tag = "SelectStmt"
            -> << <<"distinctClause", "List">>, <<"intoClause", "IntoClause">>,
                  <<"targetList", "List">>, <<"fromClause", "List">>,
                  <<"whereClause", "Node">>, <<"groupClause", "List">>,
                  <<"havingClause", "Node">>, <<"windowClause", "List">>,
                  <<"valuesLists", "List">>, <<"sortClause", "List">>,
                  <<"limitOffset", "Node">>, <<"limitCount", "Node">>,
                  <<"lockingClause", "List">>, <<"withClause", "WithClause">>,
                  <<"larg", "SelectStmt">>, <<"rarg", "SelectStmt">> >>
      [] tag = "PLAssignStmt"
            -> << <<"indirection", "List">>, <<"val", "SelectStmt">> >>
      [] tag = "A_Expr"
            -> << <<"name", "List">>, <<"lexpr", "Node">>, <<"rexpr", "Node">> >>
      [] tag = "ColumnRef" -> << <<"fields", "List">> >>
      [] tag = "FuncCall"
            -> << <<"funcname", "List">>, <<"args", "List">>,
                  <<"agg_order", "List">>, <<"agg_filter", "Node">>,
                  <<"over", "WindowDef">> >>
      [] tag = "A_Indices" -> << <<"lidx", "Node">>, <<"uidx", "Node">> >>
      [] tag = "A_Indirection"
            -> << <<"arg", "Node">>, <<"indirection", "List">> >>
      [] tag = "A_ArrayExpr" -> << <<"elements", "List">> >>
      [] tag = "ResTarget" -> << <<"indirection", "List">>, <<"val", "Node">> >>
      [] tag = "MultiAssignRef" -> << <<"source", "Node">> >>
      [] tag = "TypeCast" -> << <<"arg", "Node">>, <<"typeName", "TypeName">> >>
      [] tag = "SortBy" -> << <<"node", "Node">> >>
      [] tag = "WindowDef"
            -> << <<"partitionClause", "List">>, <<"orderClause", "List">>,
                  <<"startOffset", "Node">>, <<"endOffset", "Node">> >>
      [] tag = "RangeSubselect"
            -> << <<"subquery", "Node">>, <<"alias", "Alias">> >>
      [] tag = "RangeFunction"
            -> << <<"functions", "List">>, <<"alias", "Alias">>,
                  <<"coldeflist", "List">> >>
      [] tag = "RangeTableSample"
            -> << <<"relation", "Node">>, <<"method", "List">>,
                  <<"args", "List">>, <<"repeatable", "Node">> >>
      [] tag = "RangeTableFunc"
            -> << <<"docexpr", "Node">>, <<"rowexpr", "Node">>,
                  <<"namespaces", "List">>, <<"columns", "List">>,
                  <<"alias", "Alias">> >>
      [] tag = "RangeTableFuncCol"
            -> << <<"colexpr", "Node">>, <<"coldefexpr", "Node">> >>
      [] tag = "TypeName"
            -> << <<"names", "List">>, <<"typmods", "List">>,
                  <<"arrayBounds", "List">> >>
      [] tag = "ColumnDef"
            -> << <<"typeName", "TypeName">>, <<"raw_default", "Node">>,
                  <<"collClause", "CollateClause">>, <<"constraints", "List">> >>
      [] tag = "IndexElem"
            -> << <<"expr", "Node">>, <<"collation", "List">>,
                  <<"opclass", "List">> >>
      [] tag = "GroupingSet" -> << <<"content", "List">> >>
      [] tag = "LockingClause" -> << <<"lockedRels", "List">> >>
      [] tag = "XmlSerialize"
            -> << <<"expr", "Node">>, <<"typeName", "TypeName">> >>
      [] tag = "WithClause" -> << <<"ctes", "List">> >>
      [] tag = "InferClause"
            -> << <<"indexElems", "List">>, <<"whereClause", "Node">> >>
      [] tag = "OnConflictClause"
            -> << <<"infer", "InferClause">>, <<"targetList", "List">>,
                  <<"whereClause", "Node">> >>
      [] tag = "CommonTableExpr"
            -> << <<"ctequery", "Node">>, <<"search_clause", "CTESearchClause">>,
                  <<"cycle_clause", "CTECycleClause">> >>
      [] tag = "FunctionParameter" -> << <<"argType", "TypeName">> >>
      [] tag = "JsonOutput"
            -> << <<"typeName", "TypeName">>, <<"returning", "JsonReturning">> >>
      [] tag = "JsonKeyValue"
            -> << <<"key", "Node">>, <<"value", "JsonValueExpr">> >>
      [] tag \in {"JsonObjectConstructor", "JsonArrayConstructor"}
            -> << <<"output", "JsonOutput">>, <<"exprs", "List">> >>
      [] tag = "JsonArrayQueryConstructor"
            -> << <<"output", "JsonOutput">>, <<"query", "Node">> >>
      [] tag = "JsonAggConstructor"
            -> << <<"output", "JsonOutput">>, <<"agg_order", "List">>,
                  <<"agg_filter", "Node">>, <<"over", "WindowDef">> >>
      [] tag = "JsonObjectAgg"
            -> << <<"constructor", "JsonAggConstructor">>,
                  <<"arg", "JsonKeyValue">> >>
      [] tag = "JsonArrayAgg"
            -> << <<"constructor", "JsonAggConstructor">>,
                  <<"arg", "JsonValueExpr">> >>
      [] tag = "PlaceHolderVar" -> << <<"phexpr", "Node">> >>
      [] OTHER -> << >>

\* position of field f in the struct of tag
FieldIndex(tag, f) == CHOOSE i \in 1..Len(Schema(tag)) : Schema(tag)[i][1] = f

\* n->f, for a node n of the heap h
Field(h, n, f) == h[n].kids[FieldIndex(h[n].tag, f)]

\* --------------------------------------------------------- parse trees
\* the expression kinds a Node * field or a List member points to in the
\* trees checked: a constant, a binary operator, and a planner node the
\* raw walker has no case for
ExprTags == {"A_Const", "A_Expr", "Var"}

\* a freshly made node: makeNode() zeroes every pointer field
NewNodes(tag, locs) ==
    IF tag = "List"
    THEN {[tag |-> tag, location |-> -1, kids |-> [i \in 1..len |-> NULL]] :
              len \in 0..MaxListLen}
    ELSE {[tag |-> tag, location |-> l,
           kids |-> [i \in 1..Len(Schema(tag)) |-> NULL]] :
              l \in IF HasLocation(tag) THEN locs ELSE {-1}}

\* the node whose field or member points to c (0 for the root)
ParentOf(h, c) ==
    IF \E p \in 1..Len(h) : \E s \in 1..Len(h[p].kids) : h[p].kids[s] = c
    THEN CHOOSE p \in 1..Len(h) : \E s \in 1..Len(h[p].kids) : h[p].kids[s] = c
    ELSE NULL

SlotOf(h, c) ==
    LET p == ParentOf(h, c)
    IN  CHOOSE s \in 1..Len(h[p].kids) : h[p].kids[s] = c

RECURSIVE IsAncestorOrSelf(_, _, _)
IsAncestorOrSelf(h, a, n) ==
    IF n = NULL THEN FALSE
    ELSE IF a = n THEN TRUE
    ELSE \E q \in {ParentOf(h, n)} : IsAncestorOrSelf(h, a, q)

\* the kinds pointer s of node p may point to, by the declared type of the
\* field; the members of a CaseExpr's args are CaseWhen nodes (lfirst_node)
SlotTags(h, p, s) ==
    IF h[p].tag = "List"
    THEN LET g == ParentOf(h, p)
         IN  IF g # NULL /\ h[g].tag = "CaseExpr" /\ Field(h, g, "args") = p
             THEN {"CaseWhen"}
             ELSE ExprTags
    ELSE LET ty == Schema(h[p].tag)[s][2]
         IN  IF ty = "Node" THEN ExprTags ELSE {ty}

\* Nodes are numbered in the order the grammar would emit them left to right
\* (preorder), so the next node hangs off the rightmost path of the tree, to
\* the right of every pointer already set.
Attachable(h, p, s) ==
    /\ IsAncestorOrSelf(h, p, Len(h))
    /\ \A s2 \in s..Len(h[p].kids) : h[p].kids[s2] = NULL

Attach(h, p, s, nd) ==
    Append([h EXCEPT ![p].kids[s] = Len(h) + 1], nd)

\* lfirst_node(CaseWhen, temp) reads when->expr of every member of a
\* CaseExpr's args: the grammar appends only CaseWhen nodes there, never NULL
WellFormed(h) ==
    \A n \in 1..Len(h) :
        (h[n].tag = "CaseExpr" /\ Field(h, n, "args") # NULL)
            => \A i \in 1..Len(h[Field(h, n, "args")].kids) :
                   h[Field(h, n, "args")].kids[i] # NULL

\* heap is a tree that grows from h by at most k more nodes
RECURSIVE GrowsFrom(_, _, _)
GrowsFrom(h, k, locs) ==
    \/ heap = h /\ WellFormed(h)
    \/ /\ k > 0
       /\ \E p \in 1..Len(h) :
          \E s \in {s1 \in 1..Len(h[p].kids) : Attachable(h, p, s1)} :
          \E t \in SlotTags(h, p, s) :
          \E nd \in NewNodes(t, locs) :
          \E h2 \in {Attach(h, p, s, nd)} : GrowsFrom(h2, k - 1, locs)

\* heap is a tree of at most MaxNodes nodes
IsParseTree(rootTags, locs) ==
    \E t \in rootTags : \E nd \in NewNodes(t, locs) :
        GrowsFrom(<<nd>>, MaxNodes - 1, locs)

\* ------------------------------------------------------ exprLocation
Min(a, b) == IF a < b THEN a ELSE b

\* a plausible slip: the unknown location taken as the smaller value
leftmostLocPlainMin(l1, l2) == Min(l1, l2)

\* a plausible slip: the first location taken whenever it is known
leftmostLocFirstKnown(l1, l2) == IF l1 >= 0 THEN l1 ELSE l2

\* a plausible slip: two known offsets added up, as if the second were
\* relative to the first
leftmostLocRelative(l1, l2) ==
    IF l1 < 0 THEN l2
    ELSE IF l2 < 0 THEN l1
    ELSE l1 + l2

leftmostLoc(l1, l2) ==
    IF l1 < 0 THEN l2
    ELSE IF l2 < 0 THEN l1
    ELSE Min(l1, l2)

\* a plausible slip: the value of a key/value pair for its key
ForwardFieldValue(tag) ==
    CASE tag = "SubscriptingRef" -> "refexpr"
      [] tag \in {"FieldSelect", "FieldStore", "CollateExpr", "CollateClause"} -> "arg"
      [] tag = "RowCompareExpr" -> "largs"
      [] tag = "JsonValueExpr" -> "raw_expr"
      [] tag \in {"TargetEntry", "InferenceElem"} -> "expr"
      [] tag = "IntoClause" -> "rel"
      [] tag = "MultiAssignRef" -> "source"
      [] tag = "SortBy" -> "node"
      [] tag = "FunctionParameter" -> "argType"
      [] tag = "JsonKeyValue" -> "value"
      [] tag \in {"JsonObjectAgg", "JsonArrayAgg"} -> "constructor"
      [] tag = "PlaceHolderVar" -> "phexpr"

\* the field a forwarding case label passes to exprLocation
ForwardField(tag) ==
    CASE tag = "SubscriptingRef" -> "refexpr"
      [] tag \in {"FieldSelect", "FieldStore", "CollateExpr", "CollateClause"} -> "arg"
      [] tag = "RowCompareExpr" -> "largs"
      [] tag = "JsonValueExpr" -> "raw_expr"
      [] tag \in {"TargetEntry", "InferenceElem"} -> "expr"
      [] tag = "IntoClause" -> "rel"
      [] tag = "MultiAssignRef" -> "source"
      [] tag = "SortBy" -> "node"
      [] tag = "FunctionParameter" -> "argType"
      [] tag = "JsonKeyValue" -> "key"
      [] tag \in {"JsonObjectAgg", "JsonArrayAgg"} -> "constructor"
      [] tag = "PlaceHolderVar" -> "phexpr"

\* a plausible slip: the right operand of an A_Expr for the left one
CombineFieldRightOperand(tag) ==
    CASE tag \in {"FuncExpr", "OpExpr", "DistinctExpr", "NullIfExpr",
                  "ScalarArrayOpExpr", "BoolExpr", "XmlExpr", "FuncCall"} -> "args"
      [] tag \in {"NamedArgExpr", "RelabelType", "CoerceViaIO",
                  "ArrayCoerceExpr", "ConvertRowtypeExpr", "NullTest",
                  "BooleanTest", "CoerceToDomain"} -> "arg"
      [] tag = "A_Expr" -> "rexpr"

\* the field a combining case label passes to exprLocation
CombineField(tag) ==
    CASE tag \in {"FuncExpr", "OpExpr", "DistinctExpr", "NullIfExpr",
                  "ScalarArrayOpExpr", "BoolExpr", "XmlExpr", "FuncCall"} -> "args"
      [] tag \in {"NamedArgExpr", "RelabelType", "CoerceViaIO",
                  "ArrayCoerceExpr", "ConvertRowtypeExpr", "NullTest",
                  "BooleanTest", "CoerceToDomain"} -> "arg"
      [] tag = "A_Expr" -> "lexpr"

RECURSIVE exprLocation(_, _)
RECURSIVE ListLocation(_, _, _, _)
RECURSIVE ListLocationLast(_, _, _, _)

\* a plausible slip: the keyword's location combined with the first
\* pointer field, as the FuncExpr label does
OwnLocationOrFirstField(h, expr) ==
    IF Len(h[expr].kids) = 0 THEN h[expr].location
    ELSE leftmostLoc(h[expr].location, exprLocation(h, h[expr].kids[1]))

\* a plausible slip: a 1-based position turned into a 0-based offset
OwnLocationOneBased(h, expr) == h[expr].location - 1

\* loc = ((const T *) expr)->location;
OwnLocation(h, expr) == h[expr].location

\* a plausible slip: a kind without a rule treated like a forwarding kind
DefaultLocationFirstField(h, expr) ==
    IF Len(h[expr].kids) = 0 THEN -1
    ELSE exprLocation(h, h[expr].kids[1])

\* default: "for any other node type it's just unknown..."  loc = -1;
DefaultLocation(h, expr) == -1

\* a plausible slip: the foreach without its break
ListLocationLast(h, list, i, l) ==
    IF i > Len(h[list].kids) THEN l
    ELSE ListLocationLast(h, list, i + 1, exprLocation(h, h[list].kids[i]))

\* the foreach of case T_List, from member i on; l is the value of loc so far
ListLocation(h, list, i, l) ==
    IF i > Len(h[list].kids) THEN l
    ELSE LET m == exprLocation(h, h[list].kids[i])
         IN  IF m >= 0 THEN m ELSE ListLocation(h, list, i + 1, m)

\* a plausible slip: the type name left out of the candidates
TypeNameLocationUnread(h, tc) == -1

\* tc->typeName->location; exprLocation reads it without a NULL test, see
\* DerefsNull for the calls where typeName is NULL
TypeNameLocation(h, tc) ==
    IF Field(h, tc, "typeName") = NULL THEN -1
    ELSE h[Field(h, tc, "typeName")].location

exprLocation(h, expr) ==
    IF expr = NULL THEN -1
    ELSE LET tag == h[expr].tag
         IN  CASE tag \in OwnLocationTags -> OwnLocation(h, expr)
               [] tag \in ForwardTags
                    -> exprLocation(h, Field(h, expr, ForwardField(tag)))
               [] tag \in CombineTags
                    -> leftmostLoc(h[expr].location,
                                   exprLocation(h, Field(h, expr, CombineField(tag))))
               [] tag = "SubLink"
                    -> leftmostLoc(exprLocation(h, Field(h, expr, "testexpr")),
                                   h[expr].location)
               [] tag = "List" -> ListLocation(h, expr, 1, -1)
               [] tag = "TypeCast"
                    -> leftmostLoc(leftmostLoc(exprLocation(h, Field(h, expr, "arg")),
                                               TypeNameLocation(h, expr)),
                                   h[expr].location)
               [] OTHER -> DefaultLocation(h, expr)

\* the pointers exprLocation(expr) calls itself on, in the order of the calls
RecursesInto(h, expr) ==
    IF expr = NULL THEN << >>
    ELSE LET tag == h[expr].tag
         IN  CASE tag \in ForwardTags -> <<Field(h, expr, ForwardField(tag))>>
               [] tag \in CombineTags -> <<Field(h, expr, CombineField(tag))>>
               [] tag = "SubLink" -> <<Field(h, expr, "testexpr")>>
               [] tag = "List"
                    -> LET known == {i \in 1..Len(h[expr].kids) :
                                        exprLocation(h, h[expr].kids[i]) >= 0}
                           last == IF known = {} THEN Len(h[expr].kids)
                                   ELSE CHOOSE i \in known :
                                            \A j \in known : i <= j
                       IN  SubSeq(h[expr].kids, 1, last)
               [] tag = "TypeCast" -> <<Field(h, expr, "arg")>>
               [] OTHER -> << >>

\* the nodes on which a call of exprLocation(expr) runs, the nested calls
\* included
RECURSIVE CalledOn(_, _)
CalledOn(h, expr) ==
    IF expr = NULL THEN {}
    ELSE {expr} \cup UNION {CalledOn(h, RecursesInto(h, expr)[i]) :
                                i \in 1..Len(RecursesInto(h, expr))}

\* a plausible slip: tc->typeName taken to be tested for NULL before it is
\* read, as the other children are by the test on entry
DerefsNullTested(h, expr) == FALSE

\* exprLocation(expr) dereferences a NULL typeName of a TypeCast it evaluates
RECURSIVE DerefsNull(_, _)
DerefsNull(h, expr) ==
    IF expr = NULL THEN FALSE
    ELSE LET tag == h[expr].tag
         IN  CASE tag \in ForwardTags
                    -> DerefsNull(h, Field(h, expr, ForwardField(tag)))
               [] tag \in CombineTags
                    -> DerefsNull(h, Field(h, expr, CombineField(tag)))
               [] tag = "SubLink" -> DerefsNull(h, Field(h, expr, "testexpr"))
               [] tag = "List"
                    -> \E i \in 1..Len(h[expr].kids) :
                          /\ DerefsNull(h, h[expr].kids[i])
                          /\ \A j \in 1..(i - 1) :
                                /\ ~DerefsNull(h, h[expr].kids[j])
                                /\ exprLocation(h, h[expr].kids[j]) < 0
               [] tag = "TypeCast"
                    -> \/ DerefsNull(h, Field(h, expr, "arg"))
                       \/ Field(h, expr, "typeName") = NULL
               [] OTHER -> FALSE

\* ------------------------------- raw_expression_tree_walker_impl
\* a plausible slip: the order of case T_UpdateStmt (where before from)
SelectStmtFieldsUpdateOrder ==
    <<"distinctClause", "intoClause", "targetList", "whereClause",
      "fromClause", "groupClause", "havingClause", "windowClause",
      "valuesLists", "sortClause", "limitOffset", "limitCount",
      "lockingClause", "withClause", "larg", "rarg">>

\* case T_SelectStmt
SelectStmtFields ==
    <<"distinctClause", "intoClause", "targetList", "fromClause",
      "whereClause", "groupClause", "havingClause", "windowClause",
      "valuesLists", "sortClause", "limitOffset", "limitCount",
      "lockingClause", "withClause", "larg", "rarg">>

\* the fields each case label hands to WALK, in the order of the code
WalkFields(tag) ==
    CASE tag = "RangeVar" -> <<"alias">>
      [] tag \in {"GroupingFunc", "RowExpr", "CoalesceExpr", "MinMaxExpr", "BoolExpr"}
            -> <<"args">>
      [] tag = "SubLink" -> <<"testexpr", "subselect">>
      [] tag = "XmlExpr" -> <<"named_args", "args">>
      [] tag = "JsonReturning" -> <<"format">>
      [] tag = "JsonValueExpr" -> <<"raw_expr", "formatted_expr", "format">>
      [] tag = "JsonConstructorExpr" -> <<"args", "func", "coercion", "returning">>
      [] tag = "JsonIsPredicate" -> <<"expr">>
      [] tag \in {"NullTest", "BooleanTest", "NamedArgExpr", "CollateClause"}
            -> <<"arg">>
      [] tag = "JoinExpr" -> <<"larg", "rarg", "quals", "alias">>
      [] tag = "IntoClause" -> <<"rel", "viewQuery">>
      [] tag = "InsertStmt"
            -> <<"relation", "cols", "selectStmt", "onConflictClause",
                 "returningList", "withClause">>
      [] tag = "DeleteStmt"
            -> <<"relation", "usingClause", "whereClause", "returningList",
                 "withClause">>
      [] tag = "UpdateStmt"
            -> <<"relation", "targetList", "whereClause", "fromClause",
                 "returningList", "withClause">>
      [] tag = "MergeStmt"
            -> <<"relation", "sourceRelation", "joinCondition",
                 "mergeWhenClauses", "withClause">>
      [] tag = "MergeWhenClause" -> <<"condition", "targetList", "values">>
      [] tag = "SelectStmt" -> SelectStmtFields
      [] tag = "PLAssignStmt" -> <<"indirection", "val">>
      [] tag = "A_Expr" -> <<"lexpr", "rexpr">>
      [] tag = "FuncCall" -> <<"args", "agg_order", "agg_filter", "over">>
      [] tag = "A_Indices" -> <<"lidx", "uidx">>
      [] tag = "A_Indirection" -> <<"arg", "indirection">>
      [] tag = "A_ArrayExpr" -> <<"elements">>
      [] tag = "ResTarget" -> <<"indirection", "val">>
      [] tag = "MultiAssignRef" -> <<"source">>
      [] tag = "TypeCast" -> <<"arg", "typeName">>
      [] tag = "SortBy" -> <<"node">>
      [] tag = "WindowDef"
            -> <<"partitionClause", "orderClause", "startOffset", "endOffset">>
      [] tag = "RangeSubselect" -> <<"subquery", "alias">>
      [] tag = "RangeFunction" -> <<"functions", "alias", "coldeflist">>
      [] tag = "RangeTableSample" -> <<"relation", "args", "repeatable">>
      [] tag = "RangeTableFunc"
            -> <<"docexpr", "rowexpr", "namespaces", "columns", "alias">>
      [] tag = "RangeTableFuncCol" -> <<"colexpr", "coldefexpr">>
      [] tag = "TypeName" -> <<"typmods", "arrayBounds">>
      [] tag = "ColumnDef" -> <<"typeName", "raw_default", "collClause">>
      [] tag = "IndexElem" -> <<"expr">>
      [] tag = "GroupingSet" -> <<"content">>
      [] tag = "LockingClause" -> <<"lockedRels">>
      [] tag = "XmlSerialize" -> <<"expr", "typeName">>
      [] tag = "WithClause" -> <<"ctes">>
      [] tag = "InferClause" -> <<"indexElems", "whereClause">>
      [] tag = "OnConflictClause" -> <<"infer", "targetList", "whereClause">>
      [] tag = "CommonTableExpr" -> <<"ctequery">>
      [] tag = "JsonOutput" -> <<"typeName", "returning">>
      [] tag = "JsonKeyValue" -> <<"key", "value">>
      [] tag \in {"JsonObjectConstructor", "JsonArrayConstructor"}
            -> <<"output", "exprs">>
      [] tag = "JsonAggConstructor"
            -> <<"output", "agg_order", "agg_filter", "over">>
      [] tag \in {"JsonObjectAgg", "JsonArrayAgg"} -> <<"constructor", "arg">>
      [] tag = "JsonArrayQueryConstructor" -> <<"output", "query">>
      [] OTHER -> << >>

\* a plausible slip: a List handed to the walker itself, as LIST_WALK does
\* in expression_tree_walker, so that the visitor gets its first member
WalkOfListMember(h, at, field, idx, node) ==
    IF node # NULL /\ h[node].tag = "List" /\ Len(h[node].kids) > 0
    THEN [at |-> node, field |-> "lfirst", idx |-> 1, node |-> h[node].kids[1]]
    ELSE [at |-> at, field |-> field, idx |-> idx, node |-> node]

\* One WALK(x): the struct `at' holding the pointer, its field (the member
\* index for a list cell) and the pointer handed to the visitor.
WalkOf(h, at, field, idx, node) ==
    [at |-> at, field |-> field, idx |-> idx, node |-> node]

\* a plausible slip: the members of args handed over as the List label
\* hands over its members
WhenWalksMembers(h, n) ==
    LET args == Field(h, n, "args")
    IN  IF args = NULL THEN << >>
        ELSE [i \in 1..Len(h[args].kids) |->
                 [at |-> args, field |-> "lfirst", idx |-> i,
                  node |-> h[args].kids[i]]]

\* case T_CaseExpr: the foreach over caseexpr->args hands when->expr and
\* when->result of each CaseWhen to the visitor, never the CaseWhen
WhenWalks(h, n) ==
    LET args == Field(h, n, "args")
    IN  IF args = NULL THEN << >>
        ELSE [j \in 1..(2 * Len(h[args].kids)) |->
                 LET i == (j + 1) \div 2
                     when == h[args].kids[i]
                 IN  IF j % 2 = 1
                     THEN WalkOf(h, when, "expr", i, Field(h, when, "expr"))
                     ELSE WalkOf(h, when, "result", i, Field(h, when, "result"))]

\* a plausible slip: a leaf label that walks the pointer fields of its
\* struct (the fields of a ColumnRef, the colnames of an Alias)
LeafWalksFields(h, n) ==
    [i \in 1..Len(h[n].kids) |->
        WalkOf(h, n, Schema(h[n].tag)[i][1], 0, h[n].kids[i])]

\* "primitive node types with no subnodes": break; and case T_ColumnRef:
\* "we assume the fields contain nothing interesting": break;
LeafWalks(h, n) == << >>

\* every WALK the switch makes for node n when no visitor call returns true,
\* in program order
Walks(h, n) ==
    LET tag == h[n].tag
    IN  CASE tag \in WalkLeafTags -> LeafWalks(h, n)
          [] tag = "List"
               -> [i \in 1..Len(h[n].kids) |->
                      WalkOf(h, n, "lfirst", i, h[n].kids[i])]
          [] tag = "CaseExpr"
               -> <<WalkOf(h, n, "arg", 0, Field(h, n, "arg"))>>
                      \o WhenWalks(h, n)
                      \o <<WalkOf(h, n, "defresult", 0, Field(h, n, "defresult"))>>
          [] OTHER
               -> [i \in 1..Len(WalkFields(tag)) |->
                      WalkOf(h, n, WalkFields(tag)[i], 0,
                             Field(h, n, WalkFields(tag)[i]))]

\* the level of the elog() of the default label as the engine ships it
VendoredElevel == "ERROR"

\* the level of the elog() of the default label
UnrecognizedElevel == "NOTICE"

\* a plausible slip: the error raised one call early
StackTooDeepAtLimit == stack_base + Len(stack) >= StackLimit

\* check_stack_depth(): the frames the caller had used before the walk
\* plus one per nested call of the walker exceed max_stack_depth
StackTooDeep == stack_base + Len(stack) > StackLimit

Top == stack[Len(stack)]

\* a plausible slip: the caller resumes one WALK too far
ReturnFalseSkipsNext ==
    LET via == Top.via
        rest == SubSeq(stack, 1, Len(stack) - 1)
    IN  IF via = 0
        THEN /\ pc' = "done"
             /\ ret' = FALSE
             /\ stack' = << >>
             /\ trace' = trace
        ELSE /\ pc' = pc
             /\ ret' = ret
             /\ trace' = [trace EXCEPT ![via].ret = "false"]
             /\ stack' = [rest EXCEPT ![Len(rest)].k = @ + 2]

\* the walker returns false to its caller: to the code that started the
\* walk, or to the visitor call trace[via], which returns that value to the
\* walker one frame down, whose if (WALK(x)) then falls through
ReturnFalse ==
    LET via == Top.via
        rest == SubSeq(stack, 1, Len(stack) - 1)
    IN  IF via = 0
        THEN /\ pc' = "done"
             /\ ret' = FALSE
             /\ stack' = << >>
             /\ trace' = trace
        ELSE /\ pc' = pc
             /\ ret' = ret
             /\ trace' = [trace EXCEPT ![via].ret = "false"]
             /\ stack' = [rest EXCEPT ![Len(rest)].k = @ + 1]

\* a plausible slip: "break" for "return true", so the walk ends at the
\* "return false" below the switch
ReturnTrueLost(entry) ==
    /\ trace' = [i \in 1..(Len(trace) + 1) |->
                    IF i = Len(trace) + 1 THEN entry
                    ELSE IF trace[i].ret = "pending"
                         THEN [trace[i] EXCEPT !.ret = "true"]
                         ELSE trace[i]]
    /\ stack' = << >>
    /\ pc' = "done"
    /\ ret' = FALSE

\* a visitor call returned true: "if (WALK(x)) return true" in every frame,
\* and every visitor down the stack returns what its walker call returned
ReturnTrue(entry) ==
    /\ trace' = [i \in 1..(Len(trace) + 1) |->
                    IF i = Len(trace) + 1 THEN entry
                    ELSE IF trace[i].ret = "pending"
                         THEN [trace[i] EXCEPT !.ret = "true"]
                         ELSE trace[i]]
    /\ stack' = << >>
    /\ pc' = "done"
    /\ ret' = TRUE

\* the code under test calls raw_expression_tree_walker(node, walker, context)
CallWalker ==
    /\ pc = "idle"
    /\ \E n \in {NULL, 1} : \E b \in {0, StackLimit} :
          /\ arg' = n
          /\ stack_base' = b
          /\ stack' = <<[node |-> n, k |-> 0, via |-> 0, walks |-> << >>]>>
    /\ pc' = "walking"
    /\ UNCHANGED <<apiVars, heap, trace, ret, notices, loc, loc1, loc2>>

\* if (node == NULL) return false;
EnterNull ==
    /\ pc = "walking" /\ Len(stack) > 0
    /\ Top.k = 0 /\ Top.node = NULL
    /\ ReturnFalse
    /\ UNCHANGED <<apiVars, heap, arg, notices, stack_base, loc, loc1, loc2>>

\* check_stack_depth() raises ERROR "stack depth limit exceeded"
StackDepthError ==
    /\ pc = "walking" /\ Len(stack) > 0
    /\ Top.k = 0 /\ Top.node # NULL
    /\ StackTooDeep
    /\ pc' = "error"
    /\ stack' = << >>
    /\ UNCHANGED <<apiVars, heap, arg, trace, ret, notices, stack_base, loc, loc1, loc2>>

\* a plausible slip: a WALK macro that passes over NULL pointers
DispatchSkipsAbsent ==
    /\ pc = "walking" /\ Len(stack) > 0
    /\ Top.k = 0 /\ Top.node # NULL
    /\ ~StackTooDeep
    /\ heap[Top.node].tag \in WalkTags
    /\ stack' = [stack EXCEPT ![Len(stack)].k = 1,
                              ![Len(stack)].walks =
                                  SelectSeq(Walks(heap, Top.node),
                                            LAMBDA w : w.node # NULL)]
    /\ UNCHANGED <<apiVars, heap, pc, arg, trace, ret, notices, stack_base,
                   loc, loc1, loc2>>

\* switch (nodeTag(node)): a case label is found
Dispatch ==
    /\ pc = "walking" /\ Len(stack) > 0
    /\ Top.k = 0 /\ Top.node # NULL
    /\ ~StackTooDeep
    /\ heap[Top.node].tag \in WalkTags
    /\ stack' = [stack EXCEPT ![Len(stack)].k = 1,
                              ![Len(stack)].walks = Walks(heap, Top.node)]
    /\ UNCHANGED <<apiVars, heap, pc, arg, trace, ret, notices, stack_base, loc, loc1, loc2>>

\* default: elog(NOTICE, "unrecognized node type: %d"); break; return false
\* (at ERROR the elog does not return)
Unrecognized ==
    /\ pc = "walking" /\ Len(stack) > 0
    /\ Top.k = 0 /\ Top.node # NULL
    /\ ~StackTooDeep
    /\ heap[Top.node].tag \notin WalkTags
    /\ IF UnrecognizedElevel = "NOTICE"
       THEN /\ notices' = Append(notices, heap[Top.node].tag)
            /\ ReturnFalse
       ELSE /\ notices' = notices
            /\ pc' = "error"
            /\ stack' = << >>
            /\ UNCHANGED <<trace, ret>>
    /\ UNCHANGED <<apiVars, heap, arg, stack_base, loc, loc1, loc2>>

\* the next WALK of the frame on top; a frame keeps the WALKs of its case
\* label (walks) and the one it has come to (k, 0 before the switch)
NextWalk == Top.walks[Top.k]

Walking ==
    /\ pc = "walking" /\ Len(stack) > 0
    /\ Top.k >= 1 /\ Top.k <= Len(Top.walks)

Entry(act, r) ==
    [owner |-> Top.node, at |-> NextWalk.at, field |-> NextWalk.field,
     idx |-> NextWalk.idx, node |-> NextWalk.node, act |-> act, ret |-> r]

\* a walker that lost the visitor's answer: the walk goes on
VisitTrueIgnored ==
    /\ Walking
    /\ trace' = Append(trace, Entry("true", "true"))
    /\ stack' = [stack EXCEPT ![Len(stack)].k = @ + 1]
    /\ UNCHANGED <<apiVars, heap, pc, arg, ret, notices, stack_base, loc, loc1, loc2>>

\* WALK(x) where the visitor returns true
VisitTrue ==
    /\ Walking
    /\ ReturnTrue(Entry("true", "true"))
    /\ UNCHANGED <<apiVars, heap, arg, notices, stack_base, loc, loc1, loc2>>

\* WALK(x) where the visitor returns false without walking x (as it does
\* for a NULL x: "if (node == NULL) return false;")
VisitFalse ==
    /\ Walking
    /\ trace' = Append(trace, Entry("false", "false"))
    /\ stack' = [stack EXCEPT ![Len(stack)].k = @ + 1]
    /\ UNCHANGED <<apiVars, heap, pc, arg, ret, notices, stack_base, loc, loc1, loc2>>

\* WALK(x) where the visitor ends with
\* "return raw_expression_tree_walker(node, my_walker, context);"
VisitRecurse ==
    /\ Walking
    /\ NextWalk.node # NULL
    /\ trace' = Append(trace, Entry("recurse", "pending"))
    /\ stack' = Append(stack, [node |-> NextWalk.node, k |-> 0,
                               via |-> Len(trace) + 1, walks |-> << >>])
    /\ UNCHANGED <<apiVars, heap, pc, arg, ret, notices, stack_base, loc, loc1, loc2>>

\* break; return false;   (or the last "return WALK(x)" came back false)
WalkerReturnsFalse ==
    /\ pc = "walking" /\ Len(stack) > 0
    /\ Top.k >= 1 /\ Top.k > Len(Top.walks)
    /\ ReturnFalse
    /\ UNCHANGED <<apiVars, heap, arg, notices, stack_base, loc, loc1, loc2>>

\* ------------------------------------------- pg_query_internal.h
\* #define STDERR_BUFFER_LEN 4096
STDERR_BUFFER_LEN == 4096

\* the region that is active before any pg_query_enter_memory_context
TopMemoryContext == 0

\* PgQueryError *error == NULL
NoError == << >>

\* PgQueryInternalParsetreeAndError; tree NIL, the empty List, is << >>
NoResult == [tree |-> << >>, stderr_buffer |-> 0, error |-> NoError]

\* The inputs checked, each with what the grammar makes of it: the
\* statements of its tree, or the 1-based position of its syntax error.
Inputs ==
    {[text |-> "", stmts |-> << >>, errpos |-> 0],
     [text |-> "SELECT 1", stmts |-> <<"SelectStmt">>, errpos |-> 0],
     [text |-> "SELECT 1; CREATE TABLE t ()",
      stmts |-> <<"SelectStmt", "CreateStmt">>, errpos |-> 0],
     [text |-> "SELECT 1 +", stmts |-> << >>, errpos |-> 10]}

\* failures of the engine that do not depend on the input
Faults == {"none", "out of memory", "internal error"}

\* sizes of one write to the diagnostic channel
WriteSizes == {1, STDERR_BUFFER_LEN - 1, STDERR_BUFFER_LEN + 1}

RECURSIVE Sum(_)
Sum(q) == IF q = << >> THEN 0 ELSE q[1] + Sum(Tail(q))

\* the failure a call ends in, "none" if it succeeds
FailureOf(in, f) ==
    IF f # "none" THEN f
    ELSE IF in.errpos > 0 THEN "syntax error"
    ELSE "none"

\* a plausible slip: only the grammar's own errors are caught
CaughtSyntaxOnly(failure) == failure = "syntax error"

\* every failure raised inside the engine is caught at the entry point
Caught(failure) == TRUE

\* the Error made of a caught failure
ErrorOf(in, failure) ==
    [message |-> failure,
     cursorpos |-> IF failure = "syntax error" THEN in.errpos ELSE 0]

\* a plausible slip: the capture buffer grown to hold every write
CaptureUnbounded(buffered, n) == buffered + n

\* n more bytes of diagnostic output captured into a buffer holding
\* `buffered' bytes: what does not fit in STDERR_BUFFER_LEN is dropped
Capture(buffered, n) == Min(buffered + n, STDERR_BUFFER_LEN)

\* a plausible slip: exit switches to the top region, not the previous one
PreviousContextTop(ctx) == TopMemoryContext

\* the region that was active when region ctx was created
PreviousContext(ctx) == (CHOOSE c \in contexts : c.ctx = ctx).prev

\* MemoryContext pg_query_enter_memory_context(): a new region is created
\* and made the active one; the caller keeps the handle returned
pg_query_enter_memory_context ==
    /\ pc = "idle"
    /\ entered < MaxEnters
    /\ entered' = entered + 1
    /\ contexts' = contexts \cup {[ctx |-> entered + 1,
                                   prev |-> CurrentMemoryContext]}
    /\ CurrentMemoryContext' = entered + 1
    /\ handles' = Append(handles, [ctx |-> entered + 1,
                                   before |-> CurrentMemoryContext])
    /\ UNCHANGED <<input, fault, emitted, stderr_buffer, result, calls>>
    /\ UNCHANGED <<heap, pc, arg, stack, trace, ret, notices, stack_base,
                   loc, loc1, loc2>>

\* void pg_query_exit_memory_context(MemoryContext ctx), called with the
\* handle of the innermost region entered and not yet exited
pg_query_exit_memory_context ==
    /\ pc = "idle"
    /\ handles # << >>
    /\ \E ctx \in {handles[Len(handles)].ctx} :
          /\ CurrentMemoryContext' = PreviousContext(ctx)
          /\ contexts' = {c \in contexts : c.ctx # ctx}
    /\ handles' = SubSeq(handles, 1, Len(handles) - 1)
    /\ UNCHANGED <<entered, input, fault, emitted, stderr_buffer, result, calls>>
    /\ UNCHANGED <<heap, pc, arg, stack, trace, ret, notices, stack_base,
                   loc, loc1, loc2>>

\* pg_query_raw_parse(input, parser_options) is called: the capture of the
\* diagnostic channel starts empty
pg_query_raw_parse ==
    /\ pc = "idle"
    /\ calls < MaxCalls
    /\ calls' = calls + 1
    /\ input' \in Inputs
    /\ fault' \in Faults
    /\ emitted' = << >>
    /\ stderr_buffer' = 0
    /\ pc' = "parsing"
    /\ UNCHANGED <<CurrentMemoryContext, contexts, handles, entered, result>>
    /\ UNCHANGED <<heap, arg, stack, trace, ret, notices, stack_base,
                   loc, loc1, loc2>>

\* the engine writes n bytes to the diagnostic channel during the call
WriteDiagnostic ==
    /\ pc = "parsing"
    /\ Len(emitted) < MaxWrites
    /\ \E n \in WriteSizes :
          /\ emitted' = Append(emitted, n)
          /\ stderr_buffer' = Capture(stderr_buffer, n)
    /\ UNCHANGED <<CurrentMemoryContext, contexts, handles, entered,
                   input, fault, result, calls>>
    /\ UNCHANGED <<heap, pc, arg, stack, trace, ret, notices, stack_base,
                   loc, loc1, loc2>>

\* the call returns the tree the grammar built
ParseSucceeds ==
    /\ pc = "parsing"
    /\ FailureOf(input, fault) = "none"
    /\ result' = [tree |-> input.stmts, stderr_buffer |-> stderr_buffer,
                  error |-> NoError]
    /\ pc' = "idle"
    /\ UNCHANGED <<CurrentMemoryContext, contexts, handles, entered,
                   input, fault, emitted, stderr_buffer, calls>>
    /\ UNCHANGED <<heap, arg, stack, trace, ret, notices, stack_base,
                   loc, loc1, loc2>>

\* the engine raises a failure: caught at the entry point it is returned
\* as the Error of the result, with no tree; uncaught it ends the process
ParseFails ==
    /\ pc = "parsing"
    /\ \E failure \in {FailureOf(input, fault)} :
          /\ failure # "none"
          /\ IF Caught(failure)
             THEN /\ result' = [tree |-> << >>,
                                stderr_buffer |-> stderr_buffer,
                                error |-> <<ErrorOf(input, failure)>>]
                  /\ pc' = "idle"
             ELSE /\ result' = result
                  /\ pc' = "exited"
    /\ UNCHANGED <<CurrentMemoryContext, contexts, handles, entered,
                   input, fault, emitted, stderr_buffer, calls>>
    /\ UNCHANGED <<heap, arg, stack, trace, ret, notices, stack_base,
                   loc, loc1, loc2>>

\* no region entered, no call made
ApiIdle ==
    /\ CurrentMemoryContext = TopMemoryContext
    /\ contexts = {} /\ handles = << >> /\ entered = 0
    /\ input = [text |-> "", stmts |-> << >>, errpos |-> 0]
    /\ fault = "none" /\ emitted = << >> /\ stderr_buffer = 0
    /\ result = NoResult /\ calls = 0

\* ------------------------------------------------- specifications
Idle ==
    /\ ApiIdle
    /\ pc = "idle" /\ arg = NULL /\ stack = << >> /\ trace = << >>
    /\ ret = FALSE /\ notices = << >> /\ stack_base = 0
    /\ loc = -1 /\ loc1 = -1 /\ loc2 = -1

\* --- leftmostLoc applied to a pair of integers
LeftmostInit ==
    /\ heap = << >>
    /\ pc = "idle" /\ arg = NULL /\ stack = << >> /\ trace = << >>
    /\ ret = FALSE /\ notices = << >> /\ stack_base = 0 /\ loc = -1
    /\ loc1 \in (-MaxInt)..MaxInt
    /\ loc2 \in (-MaxInt)..MaxInt
    /\ ApiIdle

CallLeftmostLoc ==
    /\ pc = "idle"
    /\ pc' = "done"
    /\ loc' = leftmostLoc(loc1, loc2)
    /\ UNCHANGED <<apiVars, heap, arg, stack, trace, ret, notices, stack_base, loc1, loc2>>

LeftmostNext == CallLeftmostLoc
LeftmostSpec == LeftmostInit /\ [][LeftmostNext]_vars

\* --- exprLocation applied to NULL or to the root of a parse tree
LocInit == IsParseTree(AllTags, Locs) /\ Idle

CallExprLocation ==
    /\ pc = "idle"
    /\ \E n \in {NULL, 1} :
          /\ ~DerefsNull(heap, n)
          /\ arg' = n
          /\ loc' = exprLocation(heap, n)
    /\ pc' = "done"
    /\ UNCHANGED <<apiVars, heap, stack, trace, ret, notices, stack_base, loc1, loc2>>

\* tc->typeName->location with typeName NULL is undefined: the read faults,
\* or yields whatever is at that address and the call goes on with it
CallExprLocationNullTypeName ==
    /\ pc = "idle"
    /\ DerefsNull(heap, 1)
    /\ arg' = 1
    /\ \/ pc' = "crashed" /\ loc' = loc
       \/ pc' = "done" /\ loc' \in (-MaxInt)..MaxInt
    /\ UNCHANGED <<apiVars, heap, stack, trace, ret, notices, stack_base, loc1, loc2>>

LocNext == CallExprLocation \/ CallExprLocationNullTypeName
LocSpec == LocInit /\ [][LocNext]_vars

\* --- raw_expression_tree_walker applied to NULL or to the root of a tree
WalkInit == IsParseTree(AllTags, {-1}) /\ Idle

WalkNext ==
    \/ CallWalker
    \/ EnterNull
    \/ StackDepthError
    \/ Dispatch
    \/ Unrecognized
    \/ VisitTrue
    \/ VisitFalse
    \/ VisitRecurse
    \/ WalkerReturnsFalse

Spec == WalkInit /\ [][WalkNext]_vars

\* --- raw_expression_tree_walker applied to the trees of Spec and to the
\* larger trees of a CASE expression, in which a CaseWhen has children
IsCaseTree ==
    \E nd \in NewNodes("CaseExpr", {-1}) :
        GrowsFrom(<<nd>>, MaxCaseNodes - 1, {-1})

CaseInit == (IsParseTree(AllTags, {-1}) \/ IsCaseTree) /\ Idle

CaseSpec == CaseInit /\ [][WalkNext]_vars

\* --- the entry points called by a host that nests its regions properly
ApiInit == heap = << >> /\ Idle

ApiNext ==
    \/ pg_query_enter_memory_context
    \/ pg_query_exit_memory_context
    \/ pg_query_raw_parse
    \/ WriteDiagnostic
    \/ ParseSucceeds
    \/ ParseFails

ApiSpec == ApiInit /\ [][ApiNext]_vars

\* ================================================================ claims
Done == pc = "done"

\* the visitor calls made by the walker call on node n, in order
OwnedBy(n) == SelectSeq(trace, LAMBDA e : e.owner = n)

\* the walk was started on the root of the tree
RootWalked == arg = 1 /\ pc \in {"walking", "done", "error"}

\* no visitor call has returned true
NoneTrue == \A i \in 1..Len(trace) : trace[i].act # "true"

\* C1: the visitor is called on the fields or members of a node in the order
\* of its case label, and the first visitor call that returns true ends the
\* walk at once with true: no visitor call follows it.
C1_OrderedAndStopsAtFirstTrue ==
    /\ \A i \in 1..Len(trace) :
          trace[i].act = "true"
              => /\ i = Len(trace)
                 /\ pc = "done" /\ ret = TRUE /\ stack = << >>
    /\ \A n \in {trace[i].owner : i \in 1..Len(trace)} :
          \E own \in {OwnedBy(n)} : \E walks \in {Walks(heap, n)} :
              /\ Len(own) <= Len(walks)
              /\ \A j \in 1..Len(own) :
                    /\ own[j].at = walks[j].at
                    /\ own[j].field = walks[j].field
                    /\ own[j].idx = walks[j].idx
                    /\ own[j].node = walks[j].node

\* a visitor call two levels down returned true and the walk ended with
\* fields of the root still unvisited
C1_Witness ==
    /\ Done /\ ret = TRUE /\ arg = 1
    /\ Len(trace) >= 2
    /\ trace[Len(trace)].act = "true"
    /\ trace[Len(trace)].owner # 1
    /\ Len(OwnedBy(1)) < Len(Walks(heap, 1))

\* C2: a walker call that completes returns true exactly when some visitor
\* call made during it returned true.
C2_TrueIffSomeVisitorTrue ==
    /\ Done => (ret = TRUE <=> \E i \in 1..Len(trace) : trace[i].ret = "true")
    /\ \A i \in 1..Len(trace) :
          (trace[i].act = "recurse" /\ trace[i].ret = "true")
              => \E j \in (i + 1)..Len(trace) : trace[j].act = "true"
    /\ \A i \in 1..Len(trace) :
          (trace[i].act = "recurse" /\ trace[i].ret = "false")
              => \A j \in (i + 1)..Len(trace) :
                    trace[j].owner = trace[i].node => trace[j].ret = "false"

C2_Witness ==
    /\ Done /\ ret = TRUE
    /\ Len(trace) >= 3
    /\ trace[1].ret = "false"
    /\ trace[Len(trace)].ret = "true"

\* the visitor of C3: it records the node, walks it, never returns true
\* (and returns false at once for NULL, as every visitor does)
RecorderVisitor ==
    \A i \in 1..Len(trace) :
        IF trace[i].node = NULL THEN trace[i].act = "false"
        ELSE trace[i].act = "recurse"

\* the nodes handed to the visitor, in order
Visited ==
    LET hits == SelectSeq(trace, LAMBDA e : e.node # NULL)
    IN  [i \in 1..Len(hits) |-> hits[i].node]

\* depth first, left to right through the WALKed fields
RECURSIVE WalkReach(_, _)
RECURSIVE WalkReachFrom(_, _, _)
WalkReachFrom(h, ws, i) ==
    IF i > Len(ws) THEN << >>
    ELSE (IF ws[i].node = NULL THEN << >>
          ELSE <<ws[i].node>> \o WalkReach(h, ws[i].node))
             \o WalkReachFrom(h, ws, i + 1)
WalkReach(h, n) ==
    IF h[n].tag \in WalkTags THEN WalkReachFrom(h, Walks(h, n), 1) ELSE << >>

C4_SelectStmtFieldOrder ==
    (Done /\ arg = 1 /\ heap[1].tag = "SelectStmt" /\ NoneTrue)
        => LET own == OwnedBy(1)
               order == <<"distinctClause", "intoClause", "targetList",
                          "fromClause", "whereClause", "groupClause",
                          "havingClause", "windowClause", "valuesLists",
                          "sortClause", "limitOffset", "limitCount",
                          "lockingClause", "withClause", "larg", "rarg">>
           IN  /\ Len(own) = 16
               /\ \A i \in 1..16 :
                     /\ own[i].at = 1
                     /\ own[i].field = order[i]
                     /\ own[i].node = Field(heap, 1, order[i])
               /\ \A i \in 1..Len(trace) : trace[i].node # 1

\* a SelectStmt with a from clause and a where clause walked to the end
C4_Witness ==
    /\ Done /\ arg = 1 /\ heap[1].tag = "SelectStmt" /\ NoneTrue
    /\ Field(heap, 1, "fromClause") # NULL
    /\ Field(heap, 1, "whereClause") # NULL
    /\ Len(OwnedBy(1)) = 16

\* the kinds without a case label on which the walker was called, in order
NoticedTags ==
    (IF RootWalked /\ heap[1].tag \notin WalkTags /\ pc = "done"
     THEN <<heap[1].tag>> ELSE << >>)
    \o LET nested == SelectSeq(trace, LAMBDA e :
                        /\ e.act = "recurse"
                        /\ heap[e.node].tag \notin WalkTags
                        /\ e.ret # "pending")
       IN  [i \in 1..Len(nested) |-> heap[nested[i].node].tag]

\* C5: a walker call that reaches the switch on a node whose kind has no
\* case label raises no error: it logs one notice naming the kind, calls
\* the visitor on nothing and returns false.
C5_UnrecognizedIsNoticeAndFalse ==
    /\ \A i \in 1..Len(trace) : heap[trace[i].owner].tag \in WalkTags
    /\ (RootWalked /\ heap[1].tag \notin WalkTags /\ stack_base < StackLimit
            /\ pc # "walking")
          => /\ pc = "done" /\ ret = FALSE
             /\ trace = << >>
             /\ notices = <<heap[1].tag>>
    /\ \A i \in 1..Len(trace) :
          (trace[i].act = "recurse" /\ heap[trace[i].node].tag \notin WalkTags)
              => trace[i].ret \in {"pending", "false"}
    /\ notices = NoticedTags

\* a DDL statement walked: one notice, no visitor call, false
C5_Witness ==
    /\ Done /\ arg = 1 /\ heap[1].tag = "CreateStmt"
    /\ notices = <<"CreateStmt">>
    /\ ret = FALSE /\ trace = << >>

\* exprLocation was called on the root and returned
Located == pc = "done" /\ arg = 1

\* the kinds C6 lists as storing their own location
C6_ListedTags ==
    {"RangeVar", "Var", "Const", "A_Const", "Param", "ParamRef", "Aggref",
     "WindowFunc", "GroupingFunc", "CaseExpr", "CaseWhen", "ArrayExpr",
     "A_ArrayExpr", "RowExpr", "CoalesceExpr", "MinMaxExpr",
     "SQLValueFunction", "JsonConstructorExpr", "JsonObjectConstructor",
     "JsonArrayConstructor", "JsonArrayQueryConstructor",
     "JsonAggConstructor", "NullTest", "BooleanTest", "CoerceToDomain",
     "CoerceToDomainValue", "SetToDefault", "TypeName", "ColumnDef",
     "Constraint", "WindowDef", "PartitionElem", "PartitionSpec",
     "PartitionBoundSpec", "PartitionRangeDatum", "CommonTableExpr",
     "CTESearchClause", "CTECycleClause", "WithClause", "OnConflictClause",
     "InferClause", "GroupingSet", "A_Star", "A_Expr", "FunctionParameter",
     "XmlSerialize"}

\* C6 as stated: for every listed kind exprLocation returns the node's own
\* location field, whatever its children are.
C6_ListedKindsReturnOwnLocation ==
    (Located /\ heap[1].tag \in C6_ListedTags) => loc = heap[1].location

\* C6, amended: for every listed kind but NullTest, BooleanTest,
\* CoerceToDomain and A_Expr (leftmostLoc of the own location and the
\* argument's), FunctionParameter (the location of its argType) and A_Star
\* (no location stored, -1), exprLocation returns the node's own location
\* field, whatever its children are.
C6_OwnLocationKinds ==
    (Located /\ heap[1].tag \in C6_ListedTags
                  \ {"NullTest", "BooleanTest", "CoerceToDomain", "A_Expr",
                     "FunctionParameter", "A_Star"})
        => loc = heap[1].location

\* a CASE at 1 whose argument is at 0 resolves to 1
C6_Witness ==
    /\ Located /\ heap[1].tag = "CaseExpr"
    /\ heap[1].location = 1
    /\ Field(heap, 1, "arg") # NULL
    /\ heap[Field(heap, 1, "arg")].location = 0
    /\ loc = 1

\* C7 as stated: -1 is an identity on either side for every integer, the
\* result is the minimum of two known locations, and -1 is not returned
\* when an argument is known.
C7_UnknownIsIdentityForEveryInteger ==
    Done => /\ loc1 = -1 => loc = loc2
            /\ loc2 = -1 => loc = loc1
            /\ (loc1 >= 0 /\ loc2 >= 0) => loc = Min(loc1, loc2)
            /\ (loc1 >= 0 \/ loc2 >= 0) => loc # -1

\* C7, amended: leftmostLoc(-1, x) = x for every integer x,
\* leftmostLoc(x, -1) = x for every x >= -1, the result is the minimum of
\* two known locations, and -1 is not returned when an argument is known.
C7_UnknownIsIdentity ==
    Done => /\ loc1 = -1 => loc = loc2
            /\ (loc2 = -1 /\ loc1 >= -1) => loc = loc1
            /\ (loc1 >= 0 /\ loc2 >= 0) => loc = Min(loc1, loc2)
            /\ (loc1 >= 0 \/ loc2 >= 0) => loc # -1

C7_Witness ==
    /\ Done /\ loc1 = -1 /\ loc2 = 3 /\ loc = 3

\* the members of the root List with a known location
KnownMembers ==
    {i \in 1..Len(heap[1].kids) :
        heap[1].kids[i] # NULL /\ exprLocation(heap, heap[1].kids[i]) >= 0}

\* C8: for a List exprLocation returns the location of the first member
\* that has a known one, passing over NULL members and members of unknown
\* location; -1 if there is none.
C8_ListFirstKnownMember ==
    (Located /\ heap[1].tag = "List")
        => IF KnownMembers = {} THEN loc = -1
           ELSE LET first == CHOOSE i \in KnownMembers :
                                 \A j \in KnownMembers : i <= j
                IN  loc = exprLocation(heap, heap[1].kids[first])

\* a list of a member of unknown location and a member at 1 resolves to 1
C8_Witness ==
    /\ Located /\ heap[1].tag = "List"
    /\ Len(heap[1].kids) = 2
    /\ heap[1].kids[1] # NULL /\ heap[heap[1].kids[1]].location = -1
    /\ heap[1].kids[2] # NULL /\ heap[heap[1].kids[2]].location = 1
    /\ exprLocation(heap, heap[1].kids[1]) = -1
    /\ loc = 1

\* the tree with the right operand of the root taken away
WithoutRightOperand ==
    [heap EXCEPT ![1].kids[FieldIndex("A_Expr", "rexpr")] = NULL]

\* C9: for an A_Expr exprLocation returns the leftmost of its own location
\* and the location of its left operand (the left operand's when that is
\* to the left of the operator), and the right operand has no part in it.
C9_AExprOwnOrLeftOperand ==
    (Located /\ heap[1].tag = "A_Expr")
        => LET left == exprLocation(heap, Field(heap, 1, "lexpr"))
               own == heap[1].location
           IN  /\ own = -1 => loc = left
               /\ left = -1 => loc = own
               /\ (own >= 0 /\ left >= 0) => loc = Min(own, left)
               /\ loc = exprLocation(WithoutRightOperand, 1)

\* an operator at 1 with its left operand at 0 and its right operand
\* (wrongly) at 0 too resolves to the left operand
C9_Witness ==
    /\ Located /\ heap[1].tag = "A_Expr"
    /\ heap[1].location = 1
    /\ Field(heap, 1, "lexpr") # NULL
    /\ heap[Field(heap, 1, "lexpr")].tag = "A_Const"
    /\ heap[Field(heap, 1, "lexpr")].location = 0
    /\ Field(heap, 1, "rexpr") # NULL
    /\ loc = 0

\* the known locations among the three candidates of the root TypeCast
KnownCandidates ==
    {l \in {exprLocation(heap, Field(heap, 1, "arg")),
            heap[Field(heap, 1, "typeName")].location,
            heap[1].location} : l >= 0}

\* C10: for a TypeCast (with its type name) exprLocation returns the
\* smallest known location among the casted expression's, the type name's
\* and its own, and -1 only if none of the three is known.
C10_TypeCastLeftmostOfThree ==
    (Located /\ heap[1].tag = "TypeCast" /\ Field(heap, 1, "typeName") # NULL)
        => IF KnownCandidates = {} THEN loc = -1
           ELSE /\ loc \in KnownCandidates
                /\ \A l \in KnownCandidates : loc <= l

\* TypeName 'literal': the type name at 0 is left of the literal at 1
C10_Witness ==
    /\ Located /\ heap[1].tag = "TypeCast"
    /\ Field(heap, 1, "arg") # NULL
    /\ Field(heap, 1, "typeName") # NULL
    /\ exprLocation(heap, Field(heap, 1, "arg")) = 1
    /\ heap[Field(heap, 1, "typeName")].location = 0
    /\ heap[1].location = -1
    /\ loc = 0
\* C11: exprLocation returns -1 for NULL and for a node of every kind that
\* has no case label in its switch, whatever the fields of the node hold.
C11_NullAndDefaultAreUnknown ==
    /\ (pc = "done" /\ arg = NULL) => loc = -1
    /\ (Located /\ heap[1].tag \notin LocationTags) => loc = -1

\* a SELECT whose first clause holds a constant at 1 resolves to -1
C11_Witness ==
    /\ Located /\ heap[1].tag = "SelectStmt"
    /\ heap[1].kids[1] # NULL
    /\ \E n \in 2..Len(heap) : heap[n].tag = "A_Const" /\ heap[n].location = 1
    /\ loc = -1

\* the stored locations of the tree are offsets or -1
StoredLocationsValid == \A n \in 1..Len(heap) : heap[n].location >= -1

\* C12: in a tree whose stored locations are offsets or -1 (a TypeCast
\* having its type name), exprLocation returns an offset or -1, never
\* another negative value, and an offset is returned as stored however
\* large it is.
C12_ResultIsOffsetOrUnknown ==
    (pc = "done" /\ StoredLocationsValid /\ ~DerefsNull(heap, arg))
        => /\ loc >= -1
           /\ loc <= MaxLoc

\* an operator and its left operand, an operator too, both of unknown
\* location: the largest offset, stored two levels down, comes back as it is
C12_Witness ==
    /\ Located /\ heap[1].tag = "A_Expr" /\ heap[1].location = -1
    /\ Len(heap) = 3
    /\ Field(heap, 1, "lexpr") = 2
    /\ heap[2].tag = "A_Expr" /\ heap[2].location = -1
    /\ Field(heap, 2, "lexpr") = 3
    /\ heap[3].location = MaxLoc
    /\ loc = MaxLoc

\* C13: a walker call that returns does so with false and without a
\* visitor call when its node is NULL and when its node is of a leaf kind.
C13_NullAndLeafNoVisitor ==
    /\ (Done /\ arg = NULL) => (ret = FALSE /\ trace = << >>)
    /\ (Done /\ arg = 1 /\ heap[1].tag \in WalkLeafTags)
          => (ret = FALSE /\ trace = << >>)
    /\ \A i \in 1..Len(trace) :
          /\ heap[trace[i].owner].tag \notin WalkLeafTags
          /\ (trace[i].act = "recurse" /\ heap[trace[i].node].tag \in WalkLeafTags)
                => trace[i].ret \in {"pending", "false"}

\* a ColumnRef with its fields list, walked: false, no visitor call
C13_Witness ==
    /\ Done /\ arg = 1 /\ heap[1].tag = "ColumnRef"
    /\ Field(heap, 1, "fields") # NULL
    /\ ret = FALSE /\ trace = << >> /\ notices = << >>

\* the walker calls that have not returned: the outer one and one per
\* visitor call still waiting for its walker call
Nesting == 1 + Cardinality({i \in 1..Len(trace) : trace[i].ret = "pending"})

\* the node of the innermost walker call made so far
InnermostNode == IF trace = << >> THEN arg ELSE trace[Len(trace)].node

\* C14: a walker call on a node that is not NULL checks the stack depth
\* before its switch: a call nested beyond the limit ends the walk with the
\* stack-depth error and calls the visitor on nothing, a call within the
\* limit raises no such error, and a call on NULL never does.
C14_StackDepthCheckedFirst ==
    /\ pc = "error"
          => /\ stack_base + Nesting > StackLimit
             /\ InnermostNode # NULL
             /\ trace # << >> => trace[Len(trace)].act = "recurse"
             /\ \A i \in 1..Len(trace) : trace[i].owner # InnermostNode
    /\ \A d \in 1..Len(stack) :
          stack[d].k >= 1 => stack_base + d <= StackLimit
    /\ (notices # << >> \/ pc = "done") => stack_base + 1 <= StackLimit \/ arg = NULL
    /\ arg = NULL => pc # "error"

\* walker calls nested from an empty stack until the innermost one is the
\* first beyond the limit: check_stack_depth() fails it, not its callers
C14_Witness ==
    /\ pc = "error" /\ arg = 1 /\ stack_base = 0
    /\ Len(trace) >= 2
    /\ \A i \in 1..Len(trace) : trace[i].ret = "pending"
    /\ stack_base + Nesting = StackLimit + 1

\* a call of pg_query_raw_parse has returned
Parsed == pc = "idle" /\ calls > 0

\* C15: regions nest as a stack: pg_query_enter_memory_context makes the
\* new region the active one, and pg_query_exit_memory_context(h) makes
\* active again the region that was active just before the call that
\* returned h; nothing else changes the active region.
C15_ArenasNestAsStack ==
    [][/\ Len(handles') > Len(handles)
            => /\ CurrentMemoryContext' = handles'[Len(handles')].ctx
               /\ CurrentMemoryContext' # CurrentMemoryContext
               /\ \A c \in contexts : c.ctx # CurrentMemoryContext'
       /\ Len(handles') < Len(handles)
            => CurrentMemoryContext' = handles[Len(handles)].before
       /\ Len(handles') = Len(handles)
            => CurrentMemoryContext' = CurrentMemoryContext]_vars

\* three regions entered and two exited: the first is the active one again
C15_Witness ==
    /\ entered = 3 /\ Len(handles) = 1
    /\ CurrentMemoryContext = handles[1].ctx
    /\ handles[1].before = TopMemoryContext
    /\ Cardinality(contexts) = 1

\* C16: a call of pg_query_raw_parse ends in one of two ways: with the
\* statements of the input (none for the empty input) and no error, or with
\* no tree and an error that carries a message; never with a tree and an
\* error, and never with the process ended.
C16_TreeOrError ==
    /\ pc # "exited"
    /\ Parsed
          => \/ /\ FailureOf(input, fault) = "none"
                /\ result.error = NoError
                /\ result.tree = input.stmts
                /\ input.text = "" => result.tree = << >>
             \/ /\ FailureOf(input, fault) # "none"
                /\ Len(result.error) = 1
                /\ result.error[1].message # ""
                /\ result.tree = << >>

\* a second call, on a good input, ran out of memory: an error, no tree
C16_Witness ==
    /\ Parsed /\ calls = 2
    /\ input.text = "SELECT 1" /\ fault = "out of memory"
    /\ result.tree = << >>
    /\ Len(result.error) = 1 /\ result.error[1].message = "out of memory"

\* C17: after a call of pg_query_raw_parse the captured diagnostic output
\* is at most STDERR_BUFFER_LEN bytes, the first of those written; what was
\* written beyond is dropped and the call succeeds or fails as it would
\* have without it.
C17_DiagnosticLogBounded ==
    /\ stderr_buffer <= STDERR_BUFFER_LEN
    /\ Parsed
          => /\ result.stderr_buffer <= STDERR_BUFFER_LEN
             /\ result.stderr_buffer = Min(Sum(emitted), STDERR_BUFFER_LEN)
             /\ result.error = NoError <=> FailureOf(input, fault) = "none"
             /\ result.error = NoError => result.tree = input.stmts

\* two writes of more than STDERR_BUFFER_LEN bytes together during a call
\* that succeeds: the log is full, the tree is returned, no error
C17_Witness ==
    /\ Parsed
    /\ Len(emitted) = 2 /\ Sum(emitted) > STDERR_BUFFER_LEN
    /\ emitted[1] < STDERR_BUFFER_LEN
    /\ result.stderr_buffer = STDERR_BUFFER_LEN
    /\ result.error = NoError
    /\ result.tree = <<"SelectStmt">>

\* the kinds of C18, and the child each combines its own location with
C18_Tags ==
    {"FuncExpr", "OpExpr", "DistinctExpr", "NullIfExpr", "ScalarArrayOpExpr",
     "BoolExpr", "FuncCall", "NamedArgExpr", "RelabelType", "CoerceViaIO",
     "ArrayCoerceExpr", "ConvertRowtypeExpr", "SubLink"}

C18_Child(tag) ==
    CASE tag \in {"FuncExpr", "OpExpr", "DistinctExpr", "NullIfExpr",
                  "ScalarArrayOpExpr", "BoolExpr", "FuncCall"} -> "args"
      [] tag \in {"NamedArgExpr", "RelabelType", "CoerceViaIO",
                  "ArrayCoerceExpr", "ConvertRowtypeExpr"} -> "arg"
      [] tag = "SubLink" -> "testexpr"

\* C18: for a combining kind exprLocation returns the location of the
\* designated child when the node's own is unknown, the node's own when the
\* child's is unknown, and the smaller of the two otherwise.
C18_CombiningKinds ==
    (Located /\ heap[1].tag \in C18_Tags)
        => LET own == heap[1].location
               child == exprLocation(heap, Field(heap, 1, C18_Child(heap[1].tag)))
           IN  /\ own = -1 => loc = child
               /\ child = -1 => loc = own
               /\ (own >= 0 /\ child >= 0) => loc = Min(own, child)

\* f(x) with the name at 1 and, against the grammar, its argument at 0:
\* the argument's location is returned
C18_Witness ==
    /\ Located /\ heap[1].tag = "FuncCall" /\ heap[1].location = 1
    /\ Field(heap, 1, "args") # NULL
    /\ exprLocation(heap, Field(heap, 1, "args")) = 0
    /\ loc = 0

\* the kinds of C19, and the child each forwards to
C19_Tags ==
    {"FieldSelect", "FieldStore", "CollateExpr", "SubscriptingRef",
     "RowCompareExpr", "TargetEntry", "InferenceElem", "IntoClause",
     "PlaceHolderVar", "JsonKeyValue", "JsonObjectAgg", "JsonArrayAgg"}

C19_Child(tag) ==
    CASE tag \in {"FieldSelect", "FieldStore", "CollateExpr"} -> "arg"
      [] tag = "SubscriptingRef" -> "refexpr"
      [] tag = "RowCompareExpr" -> "largs"
      [] tag \in {"TargetEntry", "InferenceElem"} -> "expr"
      [] tag = "IntoClause" -> "rel"
      [] tag = "PlaceHolderVar" -> "phexpr"
      [] tag = "JsonKeyValue" -> "key"
      [] tag \in {"JsonObjectAgg", "JsonArrayAgg"} -> "constructor"

\* the tree with every pointer of the root but field f set to NULL
WithOnlyField(f) ==
    [heap EXCEPT ![1].kids =
        [i \in 1..Len(heap[1].kids) |->
            IF i = FieldIndex(heap[1].tag, f) THEN heap[1].kids[i] ELSE NULL]]

\* C19: for a forwarding kind exprLocation returns the location of the
\* designated child, -1 when that child is NULL, and no other field of the
\* node has a part in it.
C19_ForwardingKinds ==
    (Located /\ heap[1].tag \in C19_Tags)
        => LET child == Field(heap, 1, C19_Child(heap[1].tag))
           IN  /\ loc = exprLocation(heap, child)
               /\ child = NULL => loc = -1
               /\ loc = exprLocation(WithOnlyField(C19_Child(heap[1].tag)), 1)

\* an INTO clause whose relation is at 1 and whose view query holds a
\* node at 0: the relation's location
C19_Witness ==
    /\ Located /\ heap[1].tag = "IntoClause"
    /\ Field(heap, 1, "rel") # NULL
    /\ heap[Field(heap, 1, "rel")].location = 1
    /\ Field(heap, 1, "viewQuery") # NULL
    /\ heap[Field(heap, 1, "viewQuery")].location = 0
    /\ loc = 1

\* the nodes whose walker call has returned
Returned ==
    (IF Done /\ arg = 1 THEN {1} ELSE {})
        \cup {trace[i].node : i \in {j \in 1..Len(trace) :
                                        /\ trace[j].act = "recurse"
                                        /\ trace[j].ret # "pending"}}

\* the fields of the visitor calls q, in order
FieldsOf(q) == [i \in 1..Len(q) |-> q[i].field]

\* C20: when no visitor call returns true, a walker call on a node of a
\* kind that WALKs hands each field of its case label to the visitor, in the
\* order of the label, whether the field is NULL or not: one call per field
\* of a struct, one per member of a List, and for a CaseExpr arg, the expr
\* and result of each member of args, and defresult.
C20_AbsentFieldsAreVisited ==
    NoneTrue
        => \A n \in Returned :
              \E own \in {OwnedBy(n)} : \E tag \in {heap[n].tag} :
                 CASE tag \in WalkStructTags
                        -> /\ FieldsOf(own) = WalkFields(tag)
                           /\ \A i \in 1..Len(own) :
                                 /\ own[i].at = n
                                 /\ own[i].node = Field(heap, n, own[i].field)
                   [] tag = "List"
                        -> /\ Len(own) = Len(heap[n].kids)
                           /\ \A i \in 1..Len(own) :
                                 /\ own[i].idx = i
                                 /\ own[i].node = heap[n].kids[i]
                   [] tag = "CaseExpr"
                        -> LET args == Field(heap, n, "args")
                               members == IF args = NULL THEN 0
                                          ELSE Len(heap[args].kids)
                           IN  /\ Len(own) = 2 + 2 * members
                               /\ own[1].field = "arg"
                               /\ own[1].node = Field(heap, n, "arg")
                               /\ own[Len(own)].field = "defresult"
                               /\ own[Len(own)].node = Field(heap, n, "defresult")
                               /\ \A i \in 1..members :
                                     /\ own[2 * i].field = "expr"
                                     /\ own[2 * i + 1].field = "result"
                   [] OTHER -> own = << >>

\* an operator without its left operand: the visitor is handed NULL for
\* lexpr, then the right operand
C20_Witness ==
    /\ Done /\ arg = 1 /\ NoneTrue
    /\ heap[1].tag = "A_Expr"
    /\ Field(heap, 1, "lexpr") = NULL
    /\ Field(heap, 1, "rexpr") # NULL
    /\ Len(OwnedBy(1)) = 2
    /\ OwnedBy(1)[1].node = NULL
    /\ OwnedBy(1)[2].node = Field(heap, 1, "rexpr")

\* the visitor never calls the walker
NoRecursion == \A i \in 1..Len(trace) : trace[i].act # "recurse"

\* the pointer that field `field' (member idx for a list cell) of node at holds
PointerOf(at, field, idx) ==
    IF field = "lfirst" THEN heap[at].kids[idx] ELSE Field(heap, at, field)

\* C21 as stated: with a visitor that returns false without calling the
\* walker, every node visited is a direct child of the node the walker was
\* called on, none a node further down.
C21_OnlyDirectChildren ==
    NoRecursion
        => \A i \in 1..Len(trace) :
              trace[i].node # NULL
                  => ParentOf(heap, trace[i].node) = trace[i].owner

\* C21, amended: the walker never calls itself: every walker call but the
\* outer one is made by a visitor call, on the node that visitor call was
\* given.  A walker call hands the visitor pointers held in fields (members,
\* for a List) of its own node only, except on a CaseExpr, where it also
\* hands over the expr and result of each CaseWhen of args, nodes three
\* levels down.  With a visitor that never calls the walker, no node below
\* those is visited.
C21_WalkerNeverCallsItself ==
    /\ \A d \in 1..Len(stack) :
          IF d = 1 THEN stack[d].via = 0 /\ stack[d].node = arg
          ELSE /\ stack[d].via \in 1..Len(trace)
               /\ trace[stack[d].via].act = "recurse"
               /\ trace[stack[d].via].ret = "pending"
               /\ trace[stack[d].via].node = stack[d].node
               /\ trace[stack[d].via].owner = stack[d - 1].node
    /\ pc = "walking" => Len(stack) = Nesting
    /\ \A i \in 1..Len(trace) :
          \E e \in {trace[i]} :
             /\ e.node = PointerOf(e.at, e.field, e.idx)
             /\ \/ e.at = e.owner
                \/ /\ heap[e.owner].tag = "CaseExpr"
                   /\ e.field \in {"expr", "result"}
                   /\ Field(heap, e.owner, "args") # NULL
                   /\ ParentOf(heap, e.at) = Field(heap, e.owner, "args")
    /\ NoRecursion => \A i \in 1..Len(trace) : trace[i].owner = arg

\* x op (y op z) walked by a visitor that does not call the walker: the
\* right operand is visited, its own operand is not
C21_Witness ==
    /\ Done /\ arg = 1 /\ NoRecursion /\ NoneTrue
    /\ heap[1].tag = "A_Expr" /\ Len(heap) = 3
    /\ Field(heap, 1, "rexpr") = 2
    /\ ParentOf(heap, 3) = 2
    /\ Len(trace) = 2
    /\ trace[2].node = 2

\* the pointers C22 has the walker hand over for the CaseExpr n, in order
C22_Order(n) ==
    LET args == Field(heap, n, "args")
        members == IF args = NULL THEN 0 ELSE Len(heap[args].kids)
    IN  <<Field(heap, n, "arg")>>
        \o [j \in 1..(2 * members) |->
               IF j % 2 = 1
               THEN Field(heap, heap[args].kids[(j + 1) \div 2], "expr")
               ELSE Field(heap, heap[args].kids[(j + 1) \div 2], "result")]
        \o <<Field(heap, n, "defresult")>>

\* C22: a walker call on a CaseExpr hands the visitor arg, then the expr and
\* the result of each CaseWhen of args in list order, then defresult, never
\* a CaseWhen nor the list; the first visitor call that returns true is its
\* last.  A walker call on a CaseWhen finds no case label: one notice, no
\* visitor call, false.
C22_CaseWhenNeverVisited ==
    /\ \A n \in {trace[i].owner : i \in 1..Len(trace)} :
          heap[n].tag = "CaseExpr"
              => \E own \in {OwnedBy(n)} : \E order \in {C22_Order(n)} :
                    /\ Len(own) <= Len(order)
                    /\ \A j \in 1..Len(own) :
                          /\ own[j].node = order[j]
                          /\ own[j].node # NULL
                                => heap[own[j].node].tag \notin {"CaseWhen", "List"}
                          /\ own[j].ret = "true" => j = Len(own)
                    /\ (n \in Returned /\ NoneTrue) => Len(own) = Len(order)
    /\ (Done /\ arg = 1 /\ heap[1].tag = "CaseWhen")
          => (ret = FALSE /\ trace = << >> /\ notices = <<"CaseWhen">>)

\* CASE WHEN c THEN r END walked to the end: the visitor is handed NULL for
\* arg, then c, then r, then NULL for defresult
C22_Witness ==
    /\ Done /\ arg = 1 /\ ret = FALSE /\ heap[1].tag = "CaseExpr"
    /\ Len(heap) = 5
    /\ heap[2].tag = "List" /\ heap[3].tag = "CaseWhen"
    /\ Field(heap, 3, "expr") = 4 /\ Field(heap, 3, "result") = 5
    /\ Len(OwnedBy(1)) = 4
    /\ [i \in 1..4 |-> OwnedBy(1)[i].node] = <<NULL, 4, 5, NULL>>

\* the nodes of the subtree rooted at n
Subtree(n) == {d \in 1..Len(heap) : IsAncestorOrSelf(heap, n, d)}

\* C23: exprLocation applied to a tree (a TypeCast it evaluates having its
\* type name) returns -1 or the location stored in a node of the subtree of
\* its argument, and every call it makes of itself is on NULL or on a child
\* of the node the calling invocation was given, so that the calls run on
\* distinct nodes of the subtree and end.
C23_ResultIsStoredInSubtree ==
    (pc = "done" /\ ~DerefsNull(heap, arg))
        => /\ \/ loc = -1
              \/ \E n \in Subtree(arg) :
                    HasLocation(heap[n].tag) /\ heap[n].location = loc
           /\ \E called \in {CalledOn(heap, arg)} :
                 /\ called \subseteq Subtree(arg)
                 /\ \A n \in called :
                       \E into \in {RecursesInto(heap, n)} :
                          /\ \A i \in 1..Len(into) :
                                into[i] = NULL \/ ParentOf(heap, into[i]) = n
                          /\ \A i, j \in 1..Len(into) :
                                (into[i] # NULL /\ into[i] = into[j]) => i = j

\* a subquery expression at 1 whose test expression is an operator of
\* unknown location with its left operand at 0: two nested calls, and the
\* result is the offset stored two levels down
C23_Witness ==
    /\ Located /\ heap[1].tag = "SubLink" /\ heap[1].location = 1
    /\ Len(heap) = 3
    /\ Field(heap, 1, "testexpr") = 2
    /\ heap[2].tag = "A_Expr" /\ heap[2].location = -1
    /\ Field(heap, 2, "lexpr") = 3
    /\ heap[3].location = 0
    /\ CalledOn(heap, 1) = {1, 2, 3}
    /\ loc = 0

\* the call exprLocation(arg) is over, with a value or by a fault
Over == pc \in {"done", "crashed"}

\* the TypeCasts without a type name among the nodes exprLocation(arg) runs on
UntypedCasts ==
    {n \in CalledOn(heap, arg) :
        heap[n].tag = "TypeCast" /\ Field(heap, n, "typeName") = NULL}

\* C24: exprLocation of a node whose forwarded or combined child is absent
\* returns as if the child were at -1: -1 for a forwarding kind, the own
\* location for a combining kind and for SubLink, -1 for a List of absent
\* members, and for a TypeCast without casted expression the leftmost of its
\* type name and itself.  A TypeCast without type name is the one case in
\* which the call reads through a NULL pointer: the call faults only when
\* it runs on such a TypeCast, and returns normally whenever it runs on none.
C24_AbsentChildTolerated ==
    /\ (Over /\ arg = 1)
          => \E tag \in {heap[1].tag} :
                /\ (tag \in ForwardTags /\ Field(heap, 1, ForwardField(tag)) = NULL)
                      => (pc = "done" /\ loc = -1)
                /\ (tag \in CombineTags /\ Field(heap, 1, CombineField(tag)) = NULL)
                      => (pc = "done" /\ loc = heap[1].location)
                /\ (tag = "SubLink" /\ Field(heap, 1, "testexpr") = NULL)
                      => (pc = "done" /\ loc = heap[1].location)
                /\ (tag = "List" /\ \A i \in 1..Len(heap[1].kids) : heap[1].kids[i] = NULL)
                      => (pc = "done" /\ loc = -1)
                /\ (tag = "TypeCast" /\ Field(heap, 1, "typeName") # NULL
                                     /\ Field(heap, 1, "arg") = NULL)
                      => /\ pc = "done"
                         /\ loc = leftmostLoc(heap[Field(heap, 1, "typeName")].location,
                                              heap[1].location)
                /\ (tag = "TypeCast" /\ Field(heap, 1, "typeName") = NULL)
                      => DerefsNull(heap, 1)
    /\ Over => (DerefsNull(heap, arg) <=> UntypedCasts # {})
    /\ pc = "crashed" => UntypedCasts # {}
    /\ (Over /\ UntypedCasts = {}) => pc = "done"

\* a TypeCast with its casted expression and without type name: the read of
\* tc->typeName->location faults and no value is returned
C24_Witness ==
    /\ pc = "crashed" /\ arg = 1
    /\ heap[1].tag = "TypeCast"
    /\ Field(heap, 1, "typeName") = NULL
    /\ Field(heap, 1, "arg") # NULL

====
